---- MODULE Spec2Model ----
(***************************************************************************)
(* ConvoCode: the streaming chat turn of the four front ends               *)
(*   "cli"     src/cc_cli.mjs:1-71       readline loop writing to stdout   *)
(*   "channel" src/unnamed/part_001      VS Code output channel loop       *)
(*   "panel"   src/src/extension.ts      webview panel (with try/catch)    *)
(*   "panel0"  src/cc_cli.mjs:73-228     earlier webview panel (no catch)  *)
(* A text is a sequence of one-character strings.  Every write to a sink   *)
(* (stdout, the output channel, panel.webview.postMessage) is logged in    *)
(* `sink` as a record [turn, kind, text].  postMessage delivers in order,  *)
(* so the webview's message listener is applied to `dom` in the step that  *)
(* posts the message; the webview's own click handler is a separate step.  *)
(***************************************************************************)
EXTENDS Integers, Sequences, FiniteSets, TLC

VARIABLES fe, turns, sink, dom, loop, alive, work

vars == <<fe, turns, sink, dom, loop, alive, work>>

\* ---------------------------------------------------------------- bounds
\* the run's budget of outside events: a submitted input takes 2 of it, a
\* streamed chunk 1
MaxWork == 6

\* ---------------------------------------------------------------- values
FrontEnds == {"cli", "channel", "panel", "panel0"}

IsPanel == fe \in {"panel", "panel0"}

NoText == << >>

\* user inputs: the empty text, a blank line, a message
Inputs == { << >>, <<" ">>, <<"h", " ">> }

\* chunk.message.thinking / chunk.message.content of one streamed chunk;
\* an absent field is the empty text (both are falsy in the code's tests)
Fragments ==
  { [thinking |-> << >>,    content |-> << >>],
    [thinking |-> <<"t">>,  content |-> << >>],
    [thinking |-> << >>,    content |-> <<"*">>],
    [thinking |-> << >>,    content |-> <<"x", "*">>],
    [thinking |-> <<"u">>,  content |-> <<"x">>] }

ErrMsg == <<"e">>

\* ---------------------------------------------------------------- text
\* String.prototype.trim on a text of spaces and letters
RECURSIVE TrimLeft(_)
TrimLeft(s) ==
  IF s = << >> THEN << >>
  ELSE IF Head(s) = " " THEN TrimLeft(Tail(s)) ELSE s

RECURSIVE TrimRight(_)
TrimRight(s) ==
  IF s = << >> THEN << >>
  ELSE IF s[Len(s)] = " " THEN TrimRight(SubSeq(s, 1, Len(s) - 1)) ELSE s

Trim(s) == TrimRight(TrimLeft(s))

\* marked.parse on texts over letters, spaces and "*": an emphasis run
\* "*" letters "*" becomes <em>letters</em>, any other "*" stays literal,
\* and a non-empty text is wrapped in one paragraph.
IsLetter(c) == c \notin {"*", " "}

RECURSIVE RunEnd(_, _)
\* index of the first position at or after i that holds no letter
RunEnd(s, i) ==
  IF i > Len(s) THEN i
  ELSE IF IsLetter(s[i]) THEN RunEnd(s, i + 1) ELSE i

RECURSIVE Inline(_, _)
Inline(s, i) ==
  IF i > Len(s) THEN << >>
  ELSE IF s[i] = "*" /\ i + 1 <= Len(s) /\ IsLetter(s[i + 1])
            /\ RunEnd(s, i + 1) <= Len(s) /\ s[RunEnd(s, i + 1)] = "*"
       THEN <<"<em>">> \o SubSeq(s, i + 1, RunEnd(s, i + 1) - 1) \o <<"</em>">>
              \o Inline(s, RunEnd(s, i + 1) + 1)
       ELSE <<s[i]>> \o Inline(s, i + 1)

MarkedParse(raw) ==
  IF raw = << >> THEN << >>
  ELSE <<"<p>">> \o Inline(raw, 1) \o <<"</p>">>

\* ---------------------------------------------------------------- events
\* one write to the sink: the turn whose handler wrote it (0: none), what
\* was written, and the text it carried
Ev(t, kind, text) == [turn |-> t, kind |-> kind, text |-> text]

StartedNeverSet(f, started) == started

\* the flag `started` after one chunk: set on the first non-empty content
StartedAfter(f, started) == started \/ f.content # NoText

ThinkingWritesUnguarded(t, f, started) ==
  IF ~started
  THEN <<Ev(t, "ThinkingUpdated", f.thinking)>>
  ELSE << >>

ThinkingWritesFirstOnly(t, f, started) ==
  IF f.thinking # NoText /\ ~started
       /\ ~\E i \in DOMAIN sink : sink[i] = Ev(t, "ThinkingUpdated", sink[i].text)
  THEN <<Ev(t, "ThinkingUpdated", f.thinking)>>
  ELSE << >>

ThinkingWritesIgnoringStarted(t, f, started) ==
  IF f.thinking # NoText
  THEN <<Ev(t, "ThinkingUpdated", f.thinking)>>
  ELSE << >>

\* the thinking branch of the stream loop
ThinkingWrites(t, f, started) ==
  IF f.thinking # NoText /\ ~started
  THEN <<Ev(t, "ThinkingUpdated", f.thinking)>>
  ELSE << >>

ContentWritesNoStart(t, f, started) ==
  IF f.content # NoText
  THEN <<Ev(t, "ResponseUpdated", f.content)>>
  ELSE << >>

ContentWritesUnguarded(t, f, started) ==
  (IF ~started THEN <<Ev(t, "ResponseStarted", NoText)>> ELSE << >>)
    \o <<Ev(t, "ResponseUpdated", f.content)>>

\* the content branch of the stream loop
ContentWrites(t, f, started) ==
  IF f.content # NoText
  THEN (IF ~started THEN <<Ev(t, "ResponseStarted", NoText)>> ELSE << >>)
         \o <<Ev(t, "ResponseUpdated", f.content)>>
  ELSE << >>

ChunkWritesContentFirst(t, f, started) ==
  ContentWrites(t, f, started) \o ThinkingWrites(t, f, started)

\* everything one iteration of `for await (const chunk of stream)` writes
ChunkWrites(t, f, started) ==
  ThinkingWrites(t, f, started) \o ContentWrites(t, f, started)

SubmitWritesNothing(t) ==
  IF fe = "channel" THEN <<Ev(t, "Clear", NoText)>> ELSE << >>

\* what the handler writes before it requests the chat: the Thinking box,
\* output.clear() + 'Thinking...', or the 'thinking' message
SubmitWrites(t) ==
  IF fe = "channel"
  THEN <<Ev(t, "Clear", NoText), Ev(t, "ThinkingStarted", NoText)>>
  ELSE <<Ev(t, "ThinkingStarted", NoText)>>

EndWritesPromptOnly(t) ==
  IF fe = "cli" THEN <<Ev(t, "Prompt", NoText)>> ELSE << >>

\* what the handler writes once the stream is exhausted: the cli's blank
\* line and next prompt
EndWrites(t) ==
  IF fe = "cli"
  THEN <<Ev(t, "TurnCompleted", NoText), Ev(t, "Prompt", NoText)>>
  ELSE << >>

\* what the handler writes when ollama.chat or the stream throws: only
\* extension.ts catches
FailWrites(t, msg) ==
  IF fe = "panel" THEN <<Ev(t, "TurnFailed", msg)>> ELSE << >>

\* ---------------------------------------------------------------- webview
\* a child of #chat: its class, the turn whose message or click inserted
\* it, the data-raw attribute and the displayed content
El(cls, t, raw, html) == [cls |-> cls, turn |-> t, raw |-> raw, html |-> html]

LastIs(d, classes) == d # << >> /\ d[Len(d)].cls \in classes

\* chatEl.querySelector('.thinking:last-of-type'): every child of #chat is
\* a div, so only the last child can match
ThinkingTarget(d) == LastIs(d, {"thinking"})

\* chatEl.querySelector('.assistant-message:last-of-type .response-content'):
\* the error block is an .assistant-message without a .response-content
ResponseTarget(d) == LastIs(d, {"assistant"})

\* the content shown after an appendResponse with accumulated text `raw`
ResponseHtml(old, raw) == MarkedParse(raw)

OnErrorReplacesChat(d, m) == <<El("error", m.turn, NoText, m.text)>>

\* case 'error': the error block is inserted after the last child of #chat
OnError(d, m) == Append(d, El("error", m.turn, NoText, m.text))

\* the window 'message' listener
OnMessage(d, m) ==
  CASE m.kind = "ThinkingStarted" ->
         Append(d, El("thinking", m.turn, NoText, <<"Thinking...">>))
    [] m.kind = "ThinkingUpdated" ->
         IF ThinkingTarget(d)
         THEN [d EXCEPT ![Len(d)].html = m.text]
         ELSE d
    [] m.kind = "ResponseStarted" ->
         Append(d, El("assistant", m.turn, NoText, NoText))
    [] m.kind = "ResponseUpdated" ->
         IF ResponseTarget(d)
         THEN [d EXCEPT ![Len(d)].raw = @ \o m.text,
                        ![Len(d)].html = ResponseHtml(@, d[Len(d)].raw \o m.text)]
         ELSE d
    [] m.kind = "TurnFailed" ->
         OnError(d, m)
    [] OTHER -> d

RECURSIVE OnMessages(_, _)
OnMessages(d, ms) ==
  IF ms = << >> THEN d ELSE OnMessages(OnMessage(d, Head(ms)), Tail(ms))

\* the handler's writes reach the sink in order; in a panel each is a
\* postMessage handled by the webview
Write(ws) ==
  /\ sink' = sink \o ws
  /\ dom' = IF IsPanel THEN OnMessages(dom, ws) ELSE dom

\* ---------------------------------------------------------------- turns
\* one run of the send / line / command-loop handler: where it is, whether
\* ollama.chat has returned its stream, the local `started`, the chunks
\* iterated so far and the message text requested
Turn(pc, text) ==
  [pc |-> pc, stream |-> FALSE, started |-> FALSE, recv |-> << >>, text |-> text]

TurnIds == 1 .. Len(turns)

StartedCarriedOver(t) == \E u \in 1 .. t - 1 : turns[u].started

\* `let started = false`, declared inside the handler once the stream is there
StartedAtStream(t) == FALSE

Active(t) == turns[t].pc \in {"sent", "requesting", "streaming"}

Init ==
  /\ fe \in FrontEnds
  /\ turns = << >>
  /\ sink = IF fe = "cli" THEN <<Ev(0, "Prompt", NoText)>> ELSE << >>
  /\ dom = << >>
  /\ loop = IF fe = "channel" THEN "idle" ELSE "na"
  /\ alive = TRUE
  /\ work = 0

\* cli: rl.on('line') up to its first await
Line(input) ==
  /\ fe = "cli" /\ alive /\ work + 2 <= MaxWork
  /\ work' = work + 2
  /\ IF Trim(input) = NoText
     THEN /\ Write(<<Ev(0, "Prompt", NoText)>>)
          /\ UNCHANGED turns
     ELSE /\ turns' = Append(turns, Turn("requesting", Trim(input)))
          /\ Write(SubmitWrites(Len(turns) + 1))
  /\ UNCHANGED <<fe, loop, alive>>

\* channel: the command 'ollamaChat.start' is run
StartCommand ==
  /\ fe = "channel" /\ loop = "idle" /\ work + 2 <= MaxWork
  /\ loop' = "input"
  /\ UNCHANGED <<fe, turns, sink, dom, alive, work>>

\* channel: showInputBox resolves with a text
InputBox(input) ==
  /\ fe = "channel" /\ loop = "input" /\ work + 2 <= MaxWork
  /\ work' = work + 2
  /\ turns' = Append(turns, Turn("requesting", input))
  /\ Write(SubmitWrites(Len(turns) + 1))
  /\ loop' = "turn"
  /\ UNCHANGED <<fe, alive>>

\* channel: showInputBox resolves with undefined (the user cancelled)
InputCancel ==
  /\ fe = "channel" /\ loop = "input"
  /\ loop' = "idle"
  /\ UNCHANGED <<fe, turns, sink, dom, alive, work>>

\* panel: the click handler of #send in the webview
Click(input) ==
  /\ IsPanel /\ work + 2 <= MaxWork
  /\ work' = work + 2
  /\ IF Trim(input) = NoText
     THEN UNCHANGED <<turns, dom>>
     ELSE /\ dom' = Append(dom, El("user", Len(turns) + 1, NoText,
                                   MarkedParse(Trim(input))))
          /\ turns' = Append(turns, Turn("sent", Trim(input)))
  /\ UNCHANGED <<fe, sink, loop, alive>>

\* panel: onDidReceiveMessage for a 'send' message, up to its first await
OnSend(t) ==
  /\ IsPanel /\ t \in TurnIds /\ turns[t].pc = "sent"
  /\ \A u \in 1 .. t - 1 : turns[u].pc # "sent"
  /\ turns' = [turns EXCEPT ![t].pc = "requesting"]
  /\ Write(SubmitWrites(t))
  /\ UNCHANGED <<fe, loop, alive, work>>

\* await ollama.chat(...) resolves with a stream
ChatResolves(t) ==
  /\ alive /\ t \in TurnIds /\ turns[t].pc = "requesting"
  /\ turns' = [turns EXCEPT ![t].pc = "streaming", ![t].stream = TRUE,
                            ![t].started = StartedAtStream(t)]
  /\ UNCHANGED <<fe, sink, dom, loop, alive, work>>

\* one iteration of the stream loop
Chunk(t, f) ==
  /\ alive /\ t \in TurnIds /\ turns[t].pc = "streaming"
  /\ work + 1 <= MaxWork
  /\ work' = work + 1
  /\ turns' = [turns EXCEPT ![t].started = StartedAfter(f, @),
                            ![t].recv = Append(@, f)]
  /\ Write(ChunkWrites(t, f, turns[t].started))
  /\ UNCHANGED <<fe, loop, alive>>

\* the stream is exhausted: the loop ends and the handler returns
StreamEnds(t) ==
  /\ alive /\ t \in TurnIds /\ turns[t].pc = "streaming"
  /\ turns' = [turns EXCEPT ![t].pc = "done"]
  /\ Write(EndWrites(t))
  /\ loop' = IF fe = "channel" THEN "input" ELSE loop
  /\ UNCHANGED <<fe, alive, work>>

\* ollama.chat rejects, or the stream throws while it is iterated.  Without
\* a catch the async handler rejects: the channel's command loop is left,
\* and in the cli the unhandled rejection ends the process or not,
\* depending on the Node version
Fails(t, msg) ==
  /\ alive /\ t \in TurnIds /\ turns[t].pc \in {"requesting", "streaming"}
  /\ turns' = [turns EXCEPT ![t].pc = "failed"]
  /\ Write(FailWrites(t, msg))
  /\ loop' = IF fe = "channel" THEN "idle" ELSE loop
  /\ alive' \in (IF fe = "cli" THEN BOOLEAN ELSE {TRUE})
  /\ UNCHANGED <<fe, work>>

Next ==
  \/ \E input \in Inputs : Line(input)
  \/ StartCommand
  \/ \E input \in Inputs : InputBox(input)
  \/ InputCancel
  \/ \E input \in Inputs : Click(input)
  \/ \E t \in TurnIds : OnSend(t)
  \/ \E t \in TurnIds : ChatResolves(t)
  \/ \E t \in TurnIds, f \in Fragments : Chunk(t, f)
  \/ \E t \in TurnIds : StreamEnds(t)
  \/ \E t \in TurnIds : Fails(t, ErrMsg)

Spec == Init /\ [][Next]_vars

\* the chunks of the scenario "Let", "Let me think", "Hi", "Hi there": the
\* stream delivers them in this order, the next one being the one after
\* those the turn has received
ScenarioFragments ==
  << [thinking |-> <<"Let">>,          content |-> << >>],
     [thinking |-> <<"Let me think">>, content |-> << >>],
     [thinking |-> << >>,              content |-> <<"Hi">>],
     [thinking |-> << >>,              content |-> <<"Hi there">>] >>

\* one iteration of the stream loop over the scenario's next chunk
ScenarioChunk(t) ==
  /\ t \in TurnIds
  /\ Len(turns[t].recv) < Len(ScenarioFragments)
  /\ Chunk(t, ScenarioFragments[Len(turns[t].recv) + 1])

\* the stream is exhausted after the scenario's last chunk
ScenarioEnds(t) ==
  /\ t \in TurnIds
  /\ Len(turns[t].recv) = Len(ScenarioFragments)
  /\ StreamEnds(t)

ScenarioNext ==
  \/ \E input \in Inputs : Line(input)
  \/ StartCommand
  \/ \E input \in Inputs : InputBox(input)
  \/ InputCancel
  \/ \E input \in Inputs : Click(input)
  \/ \E t \in TurnIds : OnSend(t)
  \/ \E t \in TurnIds : ChatResolves(t)
  \/ \E t \in TurnIds : ScenarioChunk(t)
  \/ \E t \in TurnIds : ScenarioEnds(t)

\* every front end run on streams that deliver the scenario's chunks
ScenarioSpec == Init /\ [][ScenarioNext]_vars

TypeOK ==
  /\ fe \in FrontEnds
  /\ alive \in BOOLEAN
  /\ work \in 0 .. MaxWork
  /\ \A t \in TurnIds : turns[t].pc \in {"sent", "requesting", "streaming", "done", "failed"}

\* ---------------------------------------------------------------- reading the log
\* the render events: everything written but the prompt and output.clear()
RenderKinds ==
  {"ThinkingStarted", "ThinkingUpdated", "ResponseStarted", "ResponseUpdated",
   "TurnFailed", "TurnCompleted"}

IsRender(e) == e.kind \in RenderKinds

\* the render events of turn t, in the order written
EventsOf(t) == SelectSeq(sink, LAMBDA e : e.turn = t /\ IsRender(e))

Count(t, kind) == Cardinality({i \in DOMAIN sink : sink[i].turn = t /\ sink[i].kind = kind})

RECURSIVE KindsIn(_)
KindsIn(es) == IF es = << >> THEN << >> ELSE <<Head(es).kind>> \o KindsIn(Tail(es))

RECURSIVE TextsIn(_, _)
\* the texts carried by the events of one kind, in order
TextsIn(es, kind) ==
  IF es = << >> THEN << >>
  ELSE (IF Head(es).kind = kind THEN <<Head(es).text>> ELSE << >>)
         \o TextsIn(Tail(es), kind)

RECURSIVE Answers(_)
\* the non-empty answer texts of a chunk sequence, in arrival order
Answers(fs) ==
  IF fs = << >> THEN << >>
  ELSE (IF Head(fs).content # NoText THEN <<Head(fs).content>> ELSE << >>)
         \o Answers(Tail(fs))

RECURSIVE Reasonings(_)
\* the non-empty reasoning texts of a chunk sequence, in arrival order
Reasonings(fs) ==
  IF fs = << >> THEN << >>
  ELSE (IF Head(fs).thinking # NoText THEN <<Head(fs).thinking>> ELSE << >>)
         \o Reasonings(Tail(fs))

RECURSIVE Flat(_)
Flat(ts) == IF ts = << >> THEN << >> ELSE Head(ts) \o Flat(Tail(ts))

\* the chunks up to and including the first one with answer text
RECURSIVE UpToFirstAnswer(_)
UpToFirstAnswer(fs) ==
  IF fs = << >> THEN << >>
  ELSE IF Head(fs).content # NoText THEN <<Head(fs)>>
  ELSE <<Head(fs)>> \o UpToFirstAnswer(Tail(fs))

HasAnswer(t) == Answers(turns[t].recv) # << >>
HasReasoning(t) == Reasonings(turns[t].recv) # << >>

\* the response elements the webview inserted for turn t's startResponse
ResponseEls(t) == {i \in DOMAIN dom : dom[i].cls = "assistant" /\ dom[i].turn = t}

\* ---------------------------------------------------------------- claims

\* C1: in every front end, a turn that has received answer text has written
\* the response start exactly once, before each of its answer writes; a
\* turn that has received none has not written it.
C1_ResponseStartedOnce ==
  \A t \in TurnIds :
    /\ Count(t, "ResponseStarted") = (IF HasAnswer(t) THEN 1 ELSE 0)
    /\ \A j \in DOMAIN sink :
         (sink[j].turn = t /\ sink[j].kind = "ResponseUpdated")
           => \E i \in 1 .. j - 1 :
                sink[i].turn = t /\ sink[i].kind = "ResponseStarted"

\* a finished turn that received two chunks with answer text
C1_Witness ==
  \E t \in TurnIds :
    /\ turns[t].pc = "done"
    /\ Len(Answers(turns[t].recv)) >= 2
    /\ Count(t, "ResponseUpdated") >= 2

\* C2 (as stated): in the webview, whenever a turn has received answer
\* text, the content shown in its response element is the rendering of the
\* concatenation, in arrival order, of all the answer text it received.
C2_LastUpdateRendersAll ==
  IsPanel =>
    \A t \in TurnIds :
      HasAnswer(t) =>
        \E i \in ResponseEls(t) :
          dom[i].html = MarkedParse(Flat(Answers(turns[t].recv)))

\* C3 (as stated): at most one turn is active at any time.
C3_OneActiveTurn ==
  Cardinality({t \in TurnIds : Active(t)}) <= 1

\* C4 (as stated): the writes of two turns are never interleaved at the
\* sink, and in the webview every response element holds exactly the answer
\* text its own turn received.
C4_NoInterleaving ==
  /\ \A i, j, k \in DOMAIN sink :
       (i < j /\ j < k /\ sink[i].turn # 0 /\ sink[i].turn = sink[k].turn
          /\ IsRender(sink[i]) /\ IsRender(sink[j]) /\ IsRender(sink[k]))
         => sink[j].turn = sink[i].turn
  /\ IsPanel =>
       \A t \in TurnIds :
         HasAnswer(t) =>
           /\ Cardinality(ResponseEls(t)) = 1
           /\ \A i \in ResponseEls(t) : dom[i].raw = Flat(Answers(turns[t].recv))

\* C5 (as stated): a turn whose stream fails after the response start was
\* written ends with exactly one TurnFailed carrying the message, as its
\* last event, and without a TurnCompleted.
C5_MidStreamFailureSurfaced ==
  \A t \in TurnIds :
    (turns[t].pc = "failed" /\ turns[t].stream /\ Count(t, "ResponseStarted") > 0)
      => /\ Count(t, "TurnFailed") = 1
         /\ Count(t, "TurnCompleted") = 0
         /\ EventsOf(t)[Len(EventsOf(t))] = Ev(t, "TurnFailed", ErrMsg)

\* C6 (as stated): a turn whose chat request rejects has written exactly
\* one TurnFailed carrying the message, and the request is not made again.
C6_RequestFailureSurfaced ==
  \A t \in TurnIds :
    (turns[t].pc = "failed" /\ ~turns[t].stream)
      => /\ Count(t, "TurnFailed") = 1
         /\ EventsOf(t)[Len(EventsOf(t))] = Ev(t, "TurnFailed", ErrMsg)

\* C7 (as stated): every chunk with reasoning text produces a
\* ThinkingUpdated carrying it, wherever it arrives in the turn.
C7_EveryReasoningSurfaced ==
  \A t \in TurnIds :
    TextsIn(EventsOf(t), "ThinkingUpdated") = Reasonings(turns[t].recv)

\* C7 (amended): the reasoning texts written are exactly those of the
\* chunks up to and including the first chunk with answer text, each carried
\* unchanged and in order; reasoning text of later chunks is not written;
\* every answer text is written, in order.
C7_ReasoningUntilAnswer ==
  \A t \in TurnIds :
    /\ TextsIn(EventsOf(t), "ThinkingUpdated")
         = Reasonings(UpToFirstAnswer(turns[t].recv))
    /\ TextsIn(EventsOf(t), "ResponseUpdated") = Answers(turns[t].recv)

\* a turn that received reasoning before, with and after its first answer
C7_Witness ==
  \E t \in TurnIds :
    /\ Len(turns[t].recv) = 3
    /\ turns[t].recv[1].thinking # NoText /\ turns[t].recv[1].content = NoText
    /\ turns[t].recv[2].thinking # NoText /\ turns[t].recv[2].content # NoText
    /\ turns[t].recv[3].thinking # NoText
    /\ Len(TextsIn(EventsOf(t), "ThinkingUpdated")) = 2

\* C8 (as stated): ThinkingStarted is written once if the turn received
\* reasoning text and not at all otherwise.
C8_ThinkingStartedOnReasoning ==
  \A t \in TurnIds :
    Count(t, "ThinkingStarted") = (IF HasReasoning(t) THEN 1 ELSE 0)

\* C8 (amended): ThinkingStarted is written exactly once in every turn, when
\* the handler takes the input and before the chat is requested, so it is
\* the turn's first render event whether or not any reasoning arrives.
C8_ThinkingStartedOnSubmit ==
  \A t \in TurnIds :
    IF turns[t].pc = "sent"
    THEN EventsOf(t) = << >>
    ELSE /\ Count(t, "ThinkingStarted") = 1
         /\ EventsOf(t)[1] = Ev(t, "ThinkingStarted", NoText)

\* a finished turn that received chunks, none with reasoning text
C8_Witness ==
  \E t \in TurnIds :
    /\ turns[t].pc = "done"
    /\ turns[t].recv # << >>
    /\ ~HasReasoning(t)
    /\ Count(t, "ThinkingStarted") = 1

\* C9 (as stated): a turn whose stream was exhausted has written exactly
\* one TurnCompleted, as its last event.
C9_CompletedOnExhaustion ==
  \A t \in TurnIds :
    turns[t].pc = "done"
      => /\ Count(t, "TurnCompleted") = 1
         /\ EventsOf(t)[Len(EventsOf(t))].kind = "TurnCompleted"

\* C9 (amended): on exhaustion only the cli writes a completion (its blank
\* line), exactly once and as the turn's last render event; the output
\* channel and the panels write nothing, so no turn of theirs ever has a
\* TurnCompleted; no turn has one before its stream is exhausted.
C9_CompletedOnlyInCli ==
  \A t \in TurnIds :
    /\ Count(t, "TurnCompleted") = (IF fe = "cli" /\ turns[t].pc = "done" THEN 1 ELSE 0)
    /\ (fe = "cli" /\ turns[t].pc = "done")
         => EventsOf(t)[Len(EventsOf(t))].kind = "TurnCompleted"

\* a finished reasoning-only turn of the cli
C9_Witness ==
  \E t \in TurnIds :
    /\ fe = "cli"
    /\ turns[t].pc = "done"
    /\ HasReasoning(t) /\ ~HasAnswer(t)

\* C10 (as stated): a finished turn that received no reasoning and no
\* answer text has written exactly one render event, TurnCompleted.
C10_EmptyTurnOnlyCompletes ==
  \A t \in TurnIds :
    (turns[t].pc = "done" /\ ~HasReasoning(t) /\ ~HasAnswer(t))
      => KindsIn(EventsOf(t)) = <<"TurnCompleted">>

\* C10 (amended): such a turn has written ThinkingStarted and, in the cli
\* only, TurnCompleted after it, and no other render event.
C10_EmptyTurnEvents ==
  \A t \in TurnIds :
    (turns[t].pc = "done" /\ ~HasReasoning(t) /\ ~HasAnswer(t))
      => KindsIn(EventsOf(t))
           = (IF fe = "cli" THEN <<"ThinkingStarted", "TurnCompleted">>
              ELSE <<"ThinkingStarted">>)

\* a finished turn all of whose chunks were empty
C10_Witness ==
  \E t \in TurnIds :
    /\ turns[t].pc = "done"
    /\ Len(turns[t].recv) >= 2
    /\ ~HasReasoning(t) /\ ~HasAnswer(t)

\* the step is an iteration of turn t's stream loop over a chunk with
\* neither reasoning nor answer text
EmptyChunkStep(t) ==
  /\ Len(turns'[t].recv) = Len(turns[t].recv) + 1
  /\ turns'[t].recv[Len(turns'[t].recv)] = [thinking |-> NoText, content |-> NoText]

\* C11: a chunk with neither reasoning nor answer text, wherever it comes in
\* the turn, writes nothing to the sink, changes nothing displayed, leaves
\* the started flag as it was and does not end the turn.
C11_EmptyFragmentNoOp ==
  [][\A t \in TurnIds :
       EmptyChunkStep(t)
         => /\ sink' = sink
            /\ dom' = dom
            /\ turns'[t].started = turns[t].started
            /\ turns'[t].pc = turns[t].pc]_vars

\* a panel turn that took an empty chunk after a chunk with answer text
C11_Witness ==
  \E t \in TurnIds :
    /\ IsPanel
    /\ turns[t].pc = "streaming"
    /\ Len(turns[t].recv) = 2
    /\ turns[t].recv[1].content # NoText
    /\ turns[t].recv[2] = [thinking |-> NoText, content |-> NoText]
    /\ turns[t].started
    /\ Count(t, "ResponseUpdated") = 1

\* the update events a chunk sequence is to produce, chunk by chunk, the
\* reasoning of a chunk before its answer; `answering` tells whether answer
\* text has come before
RECURSIVE UpdatesFor(_, _, _)
UpdatesFor(t, fs, answering) ==
  IF fs = << >> THEN << >>
  ELSE (IF Head(fs).thinking # NoText /\ ~answering
        THEN <<Ev(t, "ThinkingUpdated", Head(fs).thinking)>> ELSE << >>)
       \o (IF Head(fs).content # NoText
           THEN <<Ev(t, "ResponseUpdated", Head(fs).content)>> ELSE << >>)
       \o UpdatesFor(t, Tail(fs), answering \/ Head(fs).content # NoText)

IsUpdate(e) == e.kind \in {"ThinkingUpdated", "ResponseUpdated"}

\* C12: the updates of a turn are in the sink in the order its chunks were
\* received (those of chunk i before those of chunk i+1), and every
\* ThinkingUpdated / ResponseUpdated comes after the ThinkingStarted /
\* ResponseStarted of its turn.
C12_EventsInFragmentOrder ==
  \A t \in TurnIds :
    /\ SelectSeq(EventsOf(t), IsUpdate) = UpdatesFor(t, turns[t].recv, FALSE)
    /\ \A j \in DOMAIN sink :
         (sink[j].turn = t /\ IsUpdate(sink[j]))
           => \E i \in 1 .. j - 1 :
                /\ sink[i].turn = t
                /\ sink[i].kind = (IF sink[j].kind = "ThinkingUpdated"
                                   THEN "ThinkingStarted" ELSE "ResponseStarted")

\* a turn whose first chunk carried reasoning and answer text together and
\* was followed by another chunk with answer text
C12_Witness ==
  \E t \in TurnIds :
    /\ Len(turns[t].recv) >= 2
    /\ turns[t].recv[1].thinking # NoText /\ turns[t].recv[1].content # NoText
    /\ turns[t].recv[2].content # NoText
    /\ Len(SelectSeq(EventsOf(t), IsUpdate)) = 3

\* C13 (as stated): no turn is ever created for an input that is empty or
\* only blanks, in any front end.
C13_EmptyInputNoTurn ==
  \A t \in TurnIds : Trim(turns[t].text) # NoText

\* the step is the failure of turn t
FailStep(t) == turns[t].pc # "failed" /\ turns'[t].pc = "failed"

\* C14: when a turn fails, everything written and displayed before is kept
\* as it was: the sink and the children of #chat are only extended, and the
\* only child added is the error block.
C14_FailureKeepsRendered ==
  [][\A t \in TurnIds :
       FailStep(t)
         => /\ Len(sink') >= Len(sink)
            /\ SubSeq(sink', 1, Len(sink)) = sink
            /\ Len(dom') >= Len(dom)
            /\ SubSeq(dom', 1, Len(dom)) = dom
            /\ \A i \in Len(dom) + 1 .. Len(dom') :
                 dom'[i] = El("error", t, NoText, ErrMsg)]_vars

\* a failed panel turn whose reasoning and answer are still displayed above
\* its error block
C14_Witness ==
  \E t \in TurnIds :
    /\ fe = "panel"
    /\ turns[t].pc = "failed"
    /\ Len(dom) = 4
    /\ dom[2].cls = "thinking" /\ dom[2].html = <<"t">>
    /\ dom[3].cls = "assistant" /\ dom[3].turn = t
    /\ dom[3].html = MarkedParse(Flat(Answers(turns[t].recv)))
    /\ dom[3].html # NoText
    /\ dom[4] = El("error", t, NoText, ErrMsg)

\* the event sequence of the scenario up to the exhaustion of the stream
ScenarioEvents(t) ==
  << Ev(t, "ThinkingStarted", NoText),
     Ev(t, "ThinkingUpdated", <<"Let">>),
     Ev(t, "ThinkingUpdated", <<"Let me think">>),
     Ev(t, "ResponseStarted", NoText),
     Ev(t, "ResponseUpdated", <<"Hi">>),
     Ev(t, "ResponseUpdated", <<"Hi there">>) >>

\* the documented variant, without the second ThinkingUpdated
ScenarioEventsVariant(t) ==
  << Ev(t, "ThinkingStarted", NoText),
     Ev(t, "ThinkingUpdated", <<"Let">>),
     Ev(t, "ResponseStarted", NoText),
     Ev(t, "ResponseUpdated", <<"Hi">>),
     Ev(t, "ResponseUpdated", <<"Hi there">>) >>

\* C15 (as stated): a turn that received the scenario's four chunks and
\* whose stream was then exhausted has written the scenario's events (with
\* or without the second ThinkingUpdated) followed by TurnCompleted.
C15_ScenarioEndsCompleted ==
  \A t \in TurnIds :
    turns[t].pc = "done"
      => EventsOf(t) \in
           { ScenarioEvents(t) \o <<Ev(t, "TurnCompleted", NoText)>>,
             ScenarioEventsVariant(t) \o <<Ev(t, "TurnCompleted", NoText)>> }

\* C15 (amended): such a turn has written ThinkingStarted,
\* ThinkingUpdated("Let"), ThinkingUpdated("Let me think"), ResponseStarted,
\* ResponseUpdated("Hi"), ResponseUpdated("Hi there"), each update carrying
\* its chunk's own text, and after them TurnCompleted in the cli only.
C15_ScenarioEvents ==
  \A t \in TurnIds :
    turns[t].pc = "done"
      => EventsOf(t) =
           ScenarioEvents(t)
             \o (IF fe = "cli" THEN <<Ev(t, "TurnCompleted", NoText)>> ELSE << >>)

\* a panel turn that ran the scenario to the end: its response element
\* shows the rendering of "Hi" followed by "Hi there"
C15_Witness ==
  \E t \in TurnIds :
    /\ fe = "panel"
    /\ turns[t].pc = "done"
    /\ turns[t].recv = ScenarioFragments
    /\ \E i \in ResponseEls(t) : dom[i].raw = <<"Hi", "Hi there">>

ThinkingUpdates(s, t) ==
  Len(SelectSeq(s, LAMBDA e : e.turn = t /\ e.kind = "ThinkingUpdated"))

\* the step is an iteration of turn t's stream loop over a chunk that
\* carries reasoning text
ReasoningChunkStep(t) ==
  /\ Len(turns'[t].recv) = Len(turns[t].recv) + 1
  /\ turns'[t].recv[Len(turns'[t].recv)].thinking # NoText

\* C16 (as stated): in the cli and the output channel a turn never has more
\* than one thinking update, and in the webview panel every chunk with
\* reasoning text has one.
C16_FirstReasoningOnlyInTwo ==
  \A t \in TurnIds :
    /\ fe \in {"cli", "channel"} => ThinkingUpdates(sink, t) <= 1
    /\ IsPanel => ThinkingUpdates(sink, t) = Len(Reasonings(turns[t].recv))

\* C16 (amended): in every front end alike, a chunk with reasoning text
\* produces a thinking update exactly when the turn has not begun its answer
\* before that chunk; having displayed reasoning before does not suppress it.
C16_SameRuleInEveryFrontEnd ==
  [][\A t \in TurnIds :
       ReasoningChunkStep(t)
         => ThinkingUpdates(sink', t)
              = ThinkingUpdates(sink, t) + (IF turns[t].started THEN 0 ELSE 1)]_vars

\* a cli turn with two thinking updates before its answer and a chunk with
\* reasoning text after it
C16_Witness ==
  \E t \in TurnIds :
    /\ fe = "cli"
    /\ Len(turns[t].recv) = 4
    /\ Len(Reasonings(turns[t].recv)) = 3
    /\ turns[t].recv[3].content # NoText
    /\ ThinkingUpdates(sink, t) = 2

\* the step is an iteration of turn t's stream loop over a chunk that
\* carries answer text
AnswerChunkStep(t) ==
  /\ Len(turns'[t].recv) = Len(turns[t].recv) + 1
  /\ turns'[t].recv[Len(turns'[t].recv)].content # NoText

\* the data-raw that the response element at position i had before the step
RawBefore(i) == IF i \in DOMAIN dom THEN dom[i].raw ELSE NoText

\* C17 (as stated): in the webview every response element always shows the
\* rendering of its data-raw, and every chunk of a turn that carries answer
\* text extends the data-raw of that turn's response element by exactly
\* that text.
C17_RawAppendOnlyRendered ==
  [][IsPanel =>
       /\ \A i \in DOMAIN dom' :
            dom'[i].cls = "assistant" => dom'[i].html = MarkedParse(dom'[i].raw)
       /\ \A t \in TurnIds :
            AnswerChunkStep(t)
              => \E i \in DOMAIN dom' :
                   /\ dom'[i].cls = "assistant" /\ dom'[i].turn = t
                   /\ dom'[i].raw
                        = RawBefore(i) \o turns'[t].recv[Len(turns'[t].recv)].content]_vars

\* C18: the started flag of a turn is decided by that turn's own chunks
\* alone, whatever earlier turns did: it is set exactly when the turn has
\* received answer text, so every turn with answer text has its own
\* ResponseStarted and every reasoning chunk up to its first answer has a
\* thinking update.
C18_FreshTurnState ==
  \A t \in TurnIds :
    /\ turns[t].started = HasAnswer(t)
    /\ HasAnswer(t) => Count(t, "ResponseStarted") = 1
    /\ ThinkingUpdates(sink, t) = Len(Reasonings(UpToFirstAnswer(turns[t].recv)))

\* in the output channel, where turns follow one another: a second turn
\* that surfaced its reasoning and started its response after a first turn
\* that had ended with its flag set
C18_Witness ==
  /\ fe = "channel"
  /\ Len(turns) = 2
  /\ turns[1].pc \in {"done", "failed"} /\ turns[1].started
  /\ Len(turns[2].recv) = 1
  /\ turns[2].recv[1].thinking # NoText /\ turns[2].recv[1].content # NoText
  /\ ThinkingUpdates(sink, 2) = 1
  /\ Count(2, "ResponseStarted") = 1

\* the step ends turn t, by exhaustion or by failure
EndStep(t) == Active(t) /\ turns'[t].pc \in {"done", "failed"}

\* C19 (as stated): in the cli and the output channel the handler that ends
\* a turn, by exhaustion or by failure, asks for the next input: the cli
\* writes its prompt, the channel's loop shows its input box again.
C19_NextInputAfterTurnEnds ==
  [][\A t \in TurnIds :
       EndStep(t)
         => /\ fe = "cli" =>
                 \E i \in DOMAIN sink' : sink'[i] = Ev(t, "Prompt", NoText)
            /\ fe = "channel" => loop' = "input"]_vars

====
